---- MODULE Spec2Model ----
(***************************************************************************)
(* A model of fimo/monitor.py: the record filter (Monitor.catlist), the    *)
(* aggregations built on it (sum, monthlycatsumplotdata, catsumplotdata,   *)
(* catplotdata, labels_in_use), the stacked monthly plot                   *)
(* (org_monthlycatsumplot) and the display helpers (_truncate_string,      *)
(* sort_records, org_print).                                               *)
(*                                                                         *)
(* Representation.                                                         *)
(*  - A date is the integer year*10000 + month*100 + day, so the order of  *)
(*    dates is the order of the integers; calendar arithmetic is done on   *)
(*    the decoded (year, month, day).                                      *)
(*  - A money amount the code computes as cents/100 (a float) is kept in   *)
(*    hundredths: the integer n stands for the amount n/100, so 10.0 is    *)
(*    1000.                                                                *)
(*  - strftime("%Y-%m") of a date is year*100 + month, (2024-01 is 202401) *)
(*    and strftime("%Y-%m-%d") is the date's integer itself.               *)
(*  - Optional arguments: an absent spender is the value None; an absent   *)
(*    label list and an empty one are both {} (the code tests "not         *)
(*    labels", which does not tell them apart); an absent truncate is 0    *)
(*    (the code tests "max_length and ...").                               *)
(***************************************************************************)
EXTENDS Integers, Sequences, FiniteSets, TLC

\* monitor.py:12
SKIP_LABEL == "SKIP"

\* monitor.py:231 and :232, the default startdate and enddate
DefaultStart == 20000131
DefaultEnd == 20500131

None == "<None>"

\* ------------------------------------------------------------ bounds
MaxRecords == 4      \* records held by the monitor
MaxQueries == 2      \* queries of one org_monthlycatsumplot call
MaxStrLen == 4       \* length of the strings given to _truncate_string
MaxTruncate == 4     \* largest truncate limit tried

\* ------------------------------------------------------------ inputs
Rec(s, d, v, ls, rcv, pur, com) ==
    [spender |-> s, date |-> d, value |-> v, labels |-> ls,
     receiver |-> rcv, purpose |-> pur, comment |-> com]

\* The records the importers may deliver, in import order (not date order).
Ledger ==
    << Rec("anna", 20240110, 1000, {"food"}, "market", "groceries", ""),
       Rec("anna", 20240205, 500, {"food"}, "bakery", "bread", "weekly"),
       Rec("ben", 20240110, 700, {"rent"}, "landlord", "flat", ""),
       Rec("anna", 20240310, 300, {"food", "rent"}, "landlord", "flat", "split"),
       Rec("anna", 20240131, 400, {"SKIP", "food"}, "market", "skipped", ""),
       Rec("ben", 20231231, 250, {}, "shop", "gift", ""),
       Rec("ben", 20240210, -200, {"rent"}, "landlord", "refund", "back"),
       Rec("anna", 20240415, 150, {"rent"}, "landlord", "fee", "late") >>

\* The subsequence of s at the positions in idx.
RECURSIVE Pick(_, _, _)
Pick(s, idx, i) ==
    IF i > Len(s) THEN <<>>
    ELSE (IF i \in idx THEN <<s[i]>> ELSE <<>>) \o Pick(s, idx, i + 1)

\* Monitor.data() after construction: any MaxRecords or fewer of the ledger's
\* records, in ledger order.
DataSets ==
    { Pick(Ledger, idx, 1) :
        idx \in { x \in SUBSET (1..Len(Ledger)) : Cardinality(x) <= MaxRecords } }

Spenders == { None, "anna" }
LabelSets == { {}, {"food"}, {"rent"}, {"food", "rent"} }
StartDates == { DefaultStart, 20231231, 20240110 }
EndDates == { DefaultEnd, 20240301, 20240210 }

Query(ls, sp, sd, ed, inv) ==
    [labels |-> ls, spender |-> sp, startdate |-> sd, enddate |-> ed, invert |-> inv]

\* RecordQuery (monitor.py:84-90); plotlabel only names the series and is left out.
Queries ==
    { Query(ls, sp, sd, ed, inv) :
        ls \in LabelSets, sp \in Spenders, sd \in StartDates, ed \in EndDates,
        inv \in BOOLEAN }

\* The queries given to org_monthlycatsumplot: three label filters, the rent
\* series inverted, over the default range and over a range narrower than
\* the ledger.
PlotQueries ==
    { Query(ls, None, r[1], r[2], ls = {"rent"}) :
        ls \in { {}, {"food"}, {"rent"} },
        r \in { <<DefaultStart, DefaultEnd>>, <<20231231, 20240301>> } }

\* The strings of at most n letters.
RECURSIVE StringsUpTo(_)
StringsUpTo(n) ==
    IF n = 0 THEN { "" }
    ELSE LET shorter == StringsUpTo(n - 1)
         IN shorter \cup { s \o c : s \in shorter, c \in { "a", "b" } }

\* ------------------------------------------------------------ state
VARIABLES
    data,         \* Monitor.data(): the imported records, in import order
    pc,           \* "idle", "returned" (a call has returned or raised), "plot"
                  \* (inside the loop of org_monthlycatsumplot)
    call,         \* the operation called last and its arguments
    ret,          \* what that call returned or raised
    queries,      \* org_monthlycatsumplot: the queries processed so far
    bottom_dict,  \* org_monthlycatsumplot: bucket label -> running total
    bars,         \* org_monthlycatsumplot: the arguments of each ax.bar call
    frame         \* the local lists of the aggregation called last

vars == <<data, pc, call, ret, queries, bottom_dict, bars, frame>>

\* ------------------------------------------------------------ results
Value(v) == [kind |-> "value", val |-> v]
Raise(msg) == [kind |-> "raise", val |-> msg]
\* A function that ends without a return statement returns None.
PyNone == [kind |-> "None", val |-> None]

\* ------------------------------------------------------------ dates
Year(d) == d \div 10000
Month(d) == (d \div 100) % 100
Day(d) == d % 100
MkDate(y, m, d) == y * 10000 + m * 100 + d

IsLeap(y) == (y % 4 = 0 /\ y % 100 # 0) \/ y % 400 = 0

DaysInMonth(y, m) ==
    IF m = 2 THEN (IF IsLeap(y) THEN 29 ELSE 28)
    ELSE IF m \in {4, 6, 9, 11} THEN 30 ELSE 31

\* d - timedelta(days=1)
PrevDay(d) ==
    IF Day(d) > 1 THEN d - 1
    ELSE IF Month(d) > 1
         THEN MkDate(Year(d), Month(d) - 1, DaysInMonth(Year(d), Month(d) - 1))
         ELSE MkDate(Year(d) - 1, 12, 31)

\* d.strftime("%Y-%m")
YearMonth(d) == d \div 100

\* rrule.rrule(rrule.MONTHLY, dtstart, until): the dates on dtstart's day of
\* the month, one per month from dtstart's month on, up to and including
\* until; a month that lacks that day is skipped.
RECURSIVE MonthlyFrom(_, _, _, _)
MonthlyFrom(y, m, day, until) ==
    LET ny == IF m = 12 THEN y + 1 ELSE y
        nm == IF m = 12 THEN 1 ELSE m + 1
    IN IF MkDate(y, m, 1) > until THEN <<>>
       ELSE IF day > DaysInMonth(y, m) THEN MonthlyFrom(ny, nm, day, until)
       ELSE IF MkDate(y, m, day) > until THEN <<>>
       ELSE <<MkDate(y, m, day)>> \o MonthlyFrom(ny, nm, day, until)

rrule_monthly(dtstart, until) ==
    MonthlyFrom(Year(dtstart), Month(dtstart), Day(dtstart), until)

\* ------------------------------------------------------------ helpers
RECURSIVE SumValues(_)
\* sum([d.value for d in s])
SumValues(s) == IF s = <<>> THEN 0 ELSE Head(s).value + SumValues(Tail(s))

\* (1 - 2 * int(invert))
Sign(invert) == IF invert THEN -1 ELSE 1

\* s[:k], Python's prefix slice: a negative k counts from the end.
PyPrefix(s, k) ==
    LET n == IF k >= 0 THEN (IF k < Len(s) THEN k ELSE Len(s))
             ELSE (IF Len(s) + k > 0 THEN Len(s) + k ELSE 0)
    IN SubSeq(s, 1, n)

\* ------------------------------------------------------------ _truncate_string
_truncate_string(str_input, max_length) ==
    LET str_end == "..."
        length == Len(str_input)
    IN IF max_length # 0 /\ length > max_length
       THEN PyPrefix(str_input, max_length - Len(str_end)) \o str_end
       ELSE str_input

\* ------------------------------------------------------------ sort_records
\* The sort fields with a numeric key, and "NONE" for an absent field; the
\* fields keyed by a string (spender, receiver, purpose, comment) sort the
\* same way on their own keys.
SortFields == { "NONE", "DATE", "VALUE" }

keyf(x, field) == IF field = "DATE" THEN x.date ELSE x.value

\* Inserts x into the sorted sequence s behind every element that does not
\* have to follow it, which keeps equal keys in their original order.
RECURSIVE InsertSorted(_, _, _, _)
InsertSorted(s, x, field, reverse) ==
    IF s = <<>> THEN <<x>>
    ELSE LET last == s[Len(s)]
             before == IF reverse THEN keyf(last, field) >= keyf(x, field)
                       ELSE keyf(last, field) <= keyf(x, field)
         IN IF before THEN Append(s, x)
            ELSE Append(InsertSorted(SubSeq(s, 1, Len(s) - 1), x, field, reverse), last)

RECURSIVE SortedPrefix(_, _, _, _)
SortedPrefix(s, n, field, reverse) ==
    IF n = 0 THEN <<>>
    ELSE InsertSorted(SortedPrefix(s, n - 1, field, reverse), s[n], field, reverse)

\* sorted(data, key=keyf, reverse=reverse) when a field is given, else data.
sort_records(s, field, reverse) ==
    IF field = "NONE" THEN s ELSE SortedPrefix(s, Len(s), field, reverse)

\* ------------------------------------------------------------ Monitor.catlist
check_spender(d, spender) == spender = None \/ d.spender = spender

\* A filter whose date bounds are inclusive.
catlist_pred_inclusive(d, labels, spender, startdate, enddate) ==
    /\ (labels = {} \/ labels \cap d.labels # {})
    /\ SKIP_LABEL \notin d.labels
    /\ check_spender(d, spender)
    /\ d.date >= startdate
    /\ d.date <= enddate

catlist_pred(d, labels, spender, startdate, enddate) ==
    /\ (labels = {} \/ labels \cap d.labels # {})
    /\ SKIP_LABEL \notin d.labels
    /\ check_spender(d, spender)
    /\ d.date > startdate
    /\ d.date < enddate

catlist(labels, spender, startdate, enddate) ==
    SelectSeq(data, LAMBDA d : catlist_pred(d, labels, spender, startdate, enddate))

\* ------------------------------------------------------------ Monitor.sum
sum(labels, spender, startdate, enddate, invert) ==
    Sign(invert) * SumValues(catlist(labels, spender, startdate, enddate))

\* ------------------------------------------------------------ Monitor.labels_in_use
\* labels.count(l) over the flattened label lists of the filtered records. The
\* list follows the iteration order of a Python set, which is not fixed, so
\* the result is kept as the set of its (label, count) pairs.
labels_in_use(q) ==
    LET recs == catlist(q.labels, q.spender, q.startdate, q.enddate)
        used == UNION { recs[i].labels : i \in 1..Len(recs) }
    IN { <<l, Cardinality({ i \in 1..Len(recs) : l \in recs[i].labels })>> : l \in used }

\* ------------------------------------------------------------ Monitor.monthlycatsumplotdata
\* allcatdata: the records matching labels and spender, whatever the query's dates.
\* The matching records left in import order.
allcatdata_unsorted(labels, spender) ==
    catlist(labels, spender, DefaultStart, DefaultEnd)

allcatdata(labels, spender) ==
    sort_records(catlist(labels, spender, DefaultStart, DefaultEnd), "DATE", FALSE)

\* startdate and enddate after the clamp to the data (monitor.py:271-272).
clamp_start(startdate, all) ==
    IF startdate > all[1].date THEN startdate ELSE all[1].date

clamp_end(enddate, all) ==
    IF enddate < all[Len(all)].date THEN enddate ELSE all[Len(all)].date

\* stepdays of a call with matching records (monitor.py:274).
stepdays(labels, spender, startdate, enddate) ==
    LET all == allcatdata(labels, spender)
    IN rrule_monthly(clamp_start(startdate, all), clamp_end(enddate, all))

\* The sum of one bucket (monitor.py:282-287).
bucket_sum(labels, spender, from, to, invert) ==
    Sign(invert) * SumValues(catlist(labels, spender, from, to))

\* The label of the bucket that ends at the boundary `to` (monitor.py:288).
bucket_label(to) == YearMonth(PrevDay(to))

\* Monthly sums that leave out the buckets no record falls into.
monthlycatsumplotdata_nonempty(labels, spender, startdate, enddate, invert) ==
    IF allcatdata(labels, spender) = <<>>
    THEN Value([dates |-> <<>>, sums |-> <<>>])
    ELSE LET days == stepdays(labels, spender, startdate, enddate)
             kept == { i \in 1..(Len(days) - 1) :
                         catlist(labels, spender, days[i], days[i + 1]) # <<>> }
             keptdays == Pick(days, kept, 1)
             ends == Pick(days, { i + 1 : i \in kept }, 1)
         IN IF Len(days) < 1
            THEN Raise("Date range must be at least one month")
            ELSE Value([dates |-> [i \in 1..Len(ends) |-> bucket_label(ends[i])],
                        sums |-> [i \in 1..Len(ends) |->
                                    bucket_sum(labels, spender, keptdays[i], ends[i], invert)]])

monthlycatsumplotdata(labels, spender, startdate, enddate, invert) ==
    IF allcatdata(labels, spender) = <<>>
    THEN Value([dates |-> <<>>, sums |-> <<>>])
    ELSE LET days == stepdays(labels, spender, startdate, enddate)
         IN IF Len(days) < 1
            THEN Raise("Date range must be at least one month")
            ELSE Value([dates |-> [i \in 1..(Len(days) - 1) |-> bucket_label(days[i + 1])],
                        sums |-> [i \in 1..(Len(days) - 1) |->
                                    bucket_sum(labels, spender, days[i], days[i + 1], invert)]])

\* ------------------------------------------------------------ Monitor.catsumplotdata
\* The lists dates and sums the loop builds (monitor.py:302-310).
RECURSIVE running(_, _, _)
running(recs, n, invert) ==
    IF n = 0 THEN <<>>
    ELSE LET sums == running(recs, n - 1, invert)
             prev == IF Len(sums) # 0 THEN sums[Len(sums)] ELSE 0
         IN Append(sums, prev + Sign(invert) * recs[n].value)

catsum_locals(labels, spender, startdate, enddate, invert) ==
    LET catdata == catlist(labels, spender, startdate, enddate)
    IN [dates |-> [i \in 1..Len(catdata) |-> catdata[i].date],
        sums |-> running(catdata, Len(catdata), invert)]

\* The function builds dates and sums and ends without returning them.
catsumplotdata(labels, spender, startdate, enddate, invert) == PyNone

\* ------------------------------------------------------------ Monitor.catplotdata
catplotdata(labels, spender, startdate, enddate, invert) ==
    LET catdata == catlist(labels, spender, startdate, enddate)
    IN Value([dates |-> [i \in 1..Len(catdata) |-> catdata[i].date],
              values |-> [i \in 1..Len(catdata) |-> Sign(invert) * catdata[i].value],
              labels |-> [i \in 1..Len(catdata) |->
                            IF catdata[i].comment # "" THEN catdata[i].comment
                            ELSE catdata[i].purpose]])

\* ------------------------------------------------------------ org_print, Monitor.org_list
\* d.account.spender is taken to be the record's spender.
org_print(recs, truncate, invert) ==
    [i \in 1..Len(recs) |->
        << recs[i].spender,
           recs[i].date,
           Sign(invert) * recs[i].value,
           _truncate_string(recs[i].receiver, truncate),
           _truncate_string(recs[i].purpose, truncate),
           _truncate_string(recs[i].comment, truncate) >>]

org_list(q, truncate, sort_field, sort_reverse) ==
    org_print(sort_records(catlist(q.labels, q.spender, q.startdate, q.enddate),
                           sort_field, sort_reverse),
              truncate, q.invert)

\* ------------------------------------------------------------ construction
NoCall == [op |-> "none"]
NoFrame == [dates |-> <<>>, sums |-> <<>>]
EmptyDict == [d \in {} |-> 0]

Init ==
    /\ data \in DataSets
    /\ pc = "idle"
    /\ call = NoCall
    /\ ret = PyNone
    /\ queries = <<>>
    /\ bottom_dict = EmptyDict
    /\ bars = <<>>
    /\ frame = NoFrame

PlotVars == <<queries, bottom_dict, bars>>

\* ------------------------------------------------------------ calls of the aggregations
Returns(op, q, result, locals) ==
    /\ pc = "idle"
    /\ pc' = "returned"
    /\ call' = [op |-> op, q |-> q]
    /\ ret' = result
    /\ frame' = locals
    /\ UNCHANGED <<data, PlotVars>>

CallCatlist ==
    \E q \in Queries :
        Returns("catlist", q,
                Value(catlist(q.labels, q.spender, q.startdate, q.enddate)), NoFrame)

CallSum ==
    \E q \in Queries :
        Returns("sum", q,
                Value(sum(q.labels, q.spender, q.startdate, q.enddate, q.invert)), NoFrame)

CallLabelsInUse ==
    \E q \in Queries : Returns("labels_in_use", q, Value(labels_in_use(q)), NoFrame)

CallMonthly ==
    \E q \in Queries :
        Returns("monthlycatsumplotdata", q,
                monthlycatsumplotdata(q.labels, q.spender, q.startdate, q.enddate, q.invert),
                [dates |-> IF allcatdata(q.labels, q.spender) = <<>> THEN <<>>
                           ELSE stepdays(q.labels, q.spender, q.startdate, q.enddate),
                 sums |-> <<>>])

CallCatsum ==
    \E q \in Queries :
        Returns("catsumplotdata", q,
                catsumplotdata(q.labels, q.spender, q.startdate, q.enddate, q.invert),
                catsum_locals(q.labels, q.spender, q.startdate, q.enddate, q.invert))

CallCatplot ==
    \E q \in Queries :
        Returns("catplotdata", q,
                catplotdata(q.labels, q.spender, q.startdate, q.enddate, q.invert), NoFrame)

\* The caller has taken the result; the monitor is ready for the next call.
Return ==
    /\ pc = "returned"
    /\ pc' = "idle"
    /\ call' = NoCall
    /\ ret' = PyNone
    /\ frame' = NoFrame
    /\ UNCHANGED <<data, PlotVars>>

Next == CallCatlist \/ CallSum \/ CallLabelsInUse \/ CallMonthly \/ CallCatsum
        \/ CallCatplot \/ Return

Spec == Init /\ [][Next]_vars

\* ------------------------------------------------------------ Monitor.org_monthlycatsumplot
\* bottom: the running total of each of the query's buckets (monitor.py:153-158).
bottom_of(dates, bd) ==
    [k \in 1..Len(dates) |-> IF dates[k] \in DOMAIN bd THEN bd[dates[k]] ELSE 0]

\* bottom_dict after the loop over zip(dates, sums) (monitor.py:167-171).
RECURSIVE accumulate(_, _, _, _)
accumulate(bd, dates, sums, n) ==
    IF n = 0 THEN bd
    ELSE LET before == accumulate(bd, dates, sums, n - 1)
             d == dates[n]
         IN IF d \in DOMAIN before
            THEN [before EXCEPT ![d] = @ + sums[n]]
            ELSE [x \in DOMAIN before \cup {d} |-> IF x = d THEN sums[n] ELSE before[x]]

FileName == "plot.png"

\* A start that keeps the totals of the call before.
OrgStart_keeps_totals ==
    /\ pc = "idle"
    /\ pc' = "plot"
    /\ call' = [op |-> "org_monthlycatsumplot"]
    /\ queries' = <<>>
    /\ bars' = <<>>
    /\ UNCHANGED <<data, ret, frame, bottom_dict>>

\* plt.subplots() and bottom_dict = {} (monitor.py:141-142). The caller still
\* holds what the call before returned.
OrgStart ==
    /\ pc = "idle"
    /\ pc' = "plot"
    /\ call' = [op |-> "org_monthlycatsumplot"]
    /\ queries' = <<>>
    /\ bottom_dict' = EmptyDict
    /\ bars' = <<>>
    /\ UNCHANGED <<data, ret, frame>>

\* One round of the loop over the queries (monitor.py:144-173): the query's
\* monthly sums are computed, drawn on their bottoms, and added to bottom_dict.
\* The trailing "bottom += numpy.array(sums)" extends a list that is not read
\* again. An exception of monthlycatsumplotdata ends the call.
OrgStep ==
    /\ pc = "plot"
    /\ Len(queries) < MaxQueries
    /\ \E q \in PlotQueries :
        LET r == monthlycatsumplotdata(q.labels, q.spender, q.startdate, q.enddate,
                                       q.invert)
        IN IF r.kind = "raise"
           THEN /\ pc' = "idle"
                /\ ret' = r
                /\ UNCHANGED <<queries, bottom_dict, bars>>
           ELSE /\ queries' = Append(queries, q)
                /\ bars' = Append(bars, [dates |-> r.val.dates, sums |-> r.val.sums,
                                         bottom |-> bottom_of(r.val.dates, bottom_dict)])
                /\ bottom_dict' = accumulate(bottom_dict, r.val.dates, r.val.sums,
                                             Len(r.val.dates))
                /\ UNCHANGED <<pc, ret>>
    /\ UNCHANGED <<data, call, frame>>

\* The list of queries is exhausted: the figure is saved, the name returned
\* (monitor.py:175-179).
OrgFinish ==
    /\ pc = "plot"
    /\ pc' = "idle"
    /\ ret' = Value(FileName)
    /\ UNCHANGED <<data, call, queries, bottom_dict, bars, frame>>

NextPlot == OrgStart \/ OrgStep \/ OrgFinish

SpecPlot == Init /\ [][NextPlot]_vars

\* ------------------------------------------------------------ calls of the display helpers
CallTruncate ==
    /\ pc = "idle"
    /\ \E s \in StringsUpTo(MaxStrLen), n \in 0..MaxTruncate :
        /\ call' = [op |-> "_truncate_string", str_input |-> s, max_length |-> n]
        /\ ret' = Value(_truncate_string(s, n))
    /\ pc' = "returned"
    /\ UNCHANGED <<data, PlotVars, frame>>

CallOrgList ==
    /\ pc = "idle"
    /\ \E q \in PlotQueries, n \in 0..MaxTruncate, f \in SortFields, rev \in BOOLEAN :
        /\ call' = [op |-> "org_list", q |-> q, truncate |-> n, sort_field |-> f,
                    sort_reverse |-> rev]
        /\ ret' = Value(org_list(q, n, f, rev))
    /\ pc' = "returned"
    /\ UNCHANGED <<data, PlotVars, frame>>

NextFormat == CallTruncate \/ CallOrgList \/ Return

SpecFormat == Init /\ [][NextFormat]_vars

\* ============================================================ properties
\* What the record filter is said to let through: a record that shares a
\* label with the query (or any record, when the query names none), does not
\* carry the skip marker, is of the query's spender (when it names one) and is
\* dated strictly between the query's dates.
Passes(d, q) ==
    /\ (q.labels = {} \/ \E l \in q.labels : l \in d.labels)
    /\ "SKIP" \notin d.labels
    /\ (q.spender = None \/ d.spender = q.spender)
    /\ q.startdate < d.date
    /\ d.date < q.enddate

\* The positions of data whose record passes the query.
Passing(q) == { i \in 1..Len(data) : Passes(data[i], q) }

\* C1: catlist returns exactly the records of data that pass the query's
\* labels, skip marker, spender and strict date bounds, in the order of data:
\* no record with the skip marker, of another spender or dated on startdate
\* or enddate is returned, and no passing record is dropped.
C1_CatlistExact ==
    call.op = "catlist" =>
        /\ ret = Value(Pick(data, Passing(call.q), 1))
        /\ \A k \in 1..Len(ret.val) :
            /\ "SKIP" \notin ret.val[k].labels
            /\ call.q.spender # None => ret.val[k].spender = call.q.spender
            /\ ret.val[k].date # call.q.startdate
            /\ ret.val[k].date # call.q.enddate

\* A catlist call that returned some records and left out one with the skip
\* marker, one of another spender and one dated on the query's startdate,
\* each of which the rest of the query admits.
C1_Witness ==
    /\ call.op = "catlist"
    /\ Len(ret.val) >= 1
    /\ call.q.spender = "anna"
    /\ \E i, j, k \in 1..Len(data) :
        /\ "SKIP" \in data[i].labels
        /\ Passes([data[i] EXCEPT !.labels = @ \ {"SKIP"}], call.q)
        /\ data[j].spender # call.q.spender
        /\ Passes(data[j], [call.q EXCEPT !.spender = None])
        /\ data[k].date = call.q.startdate
        /\ Passes(data[k], [call.q EXCEPT !.startdate = @ - 1])

\* C2: catsumplotdata returns the pair (dates, cumulative values), one entry
\* per filtered record in filter order, the i-th value being the signed sum of
\* the first i filtered records.
C2_RunningSumReturned ==
    call.op = "catsumplotdata" =>
        /\ ret.kind = "value"
        /\ LET recs == Pick(data, Passing(call.q), 1)
           IN /\ ret.val.dates = [i \in 1..Len(recs) |-> recs[i].date]
              /\ ret.val.sums = [i \in 1..Len(recs) |->
                                    Sign(call.q.invert) * SumValues(SubSeq(recs, 1, i))]

\* C3: when no record passes the query's full filter, labels_in_use,
\* monthlycatsumplotdata, catsumplotdata and catplotdata return empty
\* sequences and raise nothing.
C3_EmptyResultIsEmpty ==
    (/\ call.op \in { "labels_in_use", "monthlycatsumplotdata", "catsumplotdata",
                      "catplotdata" }
     /\ Passing(call.q) = {}) =>
        /\ ret.kind = "value"
        /\ call.op = "labels_in_use" => ret.val = {}
        /\ call.op \in { "monthlycatsumplotdata", "catsumplotdata" } =>
              ret.val = [dates |-> <<>>, sums |-> <<>>]
        /\ call.op = "catplotdata" =>
              ret.val = [dates |-> <<>>, values |-> <<>>, labels |-> <<>>]

\* The positions of data whose record matches the query's labels and spender
\* and does not carry the skip marker, whatever its date.
Matching(q) ==
    { i \in 1..Len(data) :
        /\ (q.labels = {} \/ \E l \in q.labels : l \in data[i].labels)
        /\ "SKIP" \notin data[i].labels
        /\ (q.spender = None \/ data[i].spender = q.spender) }

\* The sum of the values of the records at the positions in idx.
RECURSIVE ValueSum(_)
ValueSum(idx) ==
    IF idx = {} THEN 0
    ELSE LET i == CHOOSE x \in idx : TRUE
         IN data[i].value + ValueSum(idx \ {i})

Earliest(idx) == CHOOSE d \in { data[i].date : i \in idx } :
                    \A i \in idx : d <= data[i].date
Latest(idx) == CHOOSE d \in { data[i].date : i \in idx } :
                    \A i \in idx : d >= data[i].date

\* The records of the scenario: 1000 on 2024-01-10 and 500 on 2024-02-05, both
\* labelled food, asked for between 2023-12-31 and 2024-03-01.
ScenarioCall ==
    /\ data = << Ledger[1], Ledger[2] >>
    /\ call.op = "monthlycatsumplotdata"
    /\ call.q = Query({"food"}, None, 20231231, 20240301, FALSE)

\* C4: monthlycatsumplotdata returns one bucket per calendar month that holds
\* a record passing the query, so the months of the earliest and of the latest
\* such record each get a bucket; for the scenario the buckets are 2024-01 and
\* 2024-02 with sums 10.0 and 5.0.
C4_BucketPerMonthTouched ==
    (call.op = "monthlycatsumplotdata" /\ Passing(call.q) # {}) =>
        /\ ret.kind = "value"
        /\ \A i \in Passing(call.q) :
              \E k \in 1..Len(ret.val.dates) : ret.val.dates[k] = YearMonth(data[i].date)
        /\ ScenarioCall => ret.val = [dates |-> <<202401, 202402>>, sums |-> <<1000, 500>>]

\* C5: the sum of the bucket between two consecutive boundaries b_i and
\* b_(i+1) is the signed sum of the matching records with
\* b_i <= date < b_(i+1), so a record dated on b_i is counted in bucket i.
C5_BucketsHalfOpen ==
    (call.op = "monthlycatsumplotdata" /\ ret.kind = "value") =>
        /\ Len(ret.val.sums) = (IF frame.dates = <<>> THEN 0 ELSE Len(frame.dates) - 1)
        /\ \A k \in 1..Len(ret.val.sums) :
              ret.val.sums[k] =
                  Sign(call.q.invert) *
                  ValueSum({ i \in Matching(call.q) :
                               /\ frame.dates[k] <= data[i].date
                               /\ data[i].date < frame.dates[k + 1] })

\* C6: with matching records, monthlycatsumplotdata raises its error whenever
\* the clamped range yields fewer than two monthly boundaries.
C6_RaisesBelowTwoBoundaries ==
    (/\ call.op = "monthlycatsumplotdata"
     /\ Matching(call.q) # {}
     /\ Len(frame.dates) < 2) => ret.kind = "raise"

\* The bars of two queries of one call that have the same spender, startdate
\* and enddate and different label sets.
SameRangeOtherLabels(i, j) ==
    /\ queries[i].spender = queries[j].spender
    /\ queries[i].startdate = queries[j].startdate
    /\ queries[i].enddate = queries[j].enddate
    /\ queries[i].labels # queries[j].labels

\* C7 (as claimed): two queries with the same spender, startdate and enddate
\* and different label sets, each matching a record, get identical sequences
\* of bucket labels.
C7_LabelsIgnoreLabelFilter ==
    \A i, j \in 1..Len(bars) :
        (/\ SameRangeOtherLabels(i, j)
         /\ Passing(queries[i]) # {}
         /\ Passing(queries[j]) # {}) => bars[i].dates = bars[j].dates

\* C7 (amended): the bucket labels depend on the label filter only through
\* the earliest and the latest date of the records it matches: two queries
\* with the same spender, startdate and enddate and different label sets whose
\* matching records begin on the same date and end on the same date get
\* identical sequences of bucket labels.
C7_LabelsFollowDataExtent ==
    \A i, j \in 1..Len(bars) :
        (/\ SameRangeOtherLabels(i, j)
         /\ Matching(queries[i]) # {}
         /\ Matching(queries[j]) # {}
         /\ Earliest(Matching(queries[i])) = Earliest(Matching(queries[j]))
         /\ Latest(Matching(queries[i])) = Latest(Matching(queries[j])))
            => bars[i].dates = bars[j].dates

\* Two queries of one call with different label sets that match different
\* records of the same extent, drawn on the same two or more buckets.
C7_Witness ==
    /\ pc = "plot"
    /\ \E i, j \in 1..Len(bars) :
        /\ SameRangeOtherLabels(i, j)
        /\ Matching(queries[i]) # {}
        /\ Matching(queries[j]) # {}
        /\ Matching(queries[i]) # Matching(queries[j])
        /\ Earliest(Matching(queries[i])) = Earliest(Matching(queries[j]))
        /\ Latest(Matching(queries[i])) = Latest(Matching(queries[j]))
        /\ Len(bars[i].dates) >= 2
        /\ bars[i].dates = bars[j].dates

\* C8: with matching records, every boundary monthlycatsumplotdata generates
\* lies between the earliest and the latest date of the matching records: the
\* first is the later of startdate and the earliest record date, and none is
\* later than the earlier of enddate and the latest record date.
C8_BoundariesWithinData ==
    (call.op = "monthlycatsumplotdata" /\ Matching(call.q) # {} /\ frame.dates # <<>>) =>
        LET lo == Earliest(Matching(call.q))
            hi == Latest(Matching(call.q))
        IN /\ frame.dates[1] = (IF call.q.startdate > lo THEN call.q.startdate ELSE lo)
           /\ \A k \in 1..Len(frame.dates) :
                /\ lo <= frame.dates[k]
                /\ frame.dates[k] <= hi
                /\ frame.dates[k] <= call.q.enddate

\* A monthlycatsumplotdata call that generated three or more boundaries for a
\* query whose range begins before the matching records and ends after them.
C8_Witness ==
    /\ call.op = "monthlycatsumplotdata"
    /\ Matching(call.q) # {}
    /\ Len(frame.dates) >= 3
    /\ call.q.startdate < Earliest(Matching(call.q))
    /\ call.q.enddate > Latest(Matching(call.q))
    /\ ret.kind = "value"

\* C9: for a positive limit, what _truncate_string returns is no longer than
\* the limit, and an input no longer than the limit is returned unchanged.
C9_TruncatedWithinLimit ==
    (call.op = "_truncate_string" /\ call.max_length >= 1) =>
        /\ Len(ret.val) <= call.max_length
        /\ Len(call.str_input) <= call.max_length => ret.val = call.str_input

\* The total that the bars before bar i of the call put on the bucket d.
RECURSIVE SumAt(_, _, _)
SumAt(bar, d, n) ==
    IF n = 0 THEN 0
    ELSE (IF bar.dates[n] = d THEN bar.sums[n] ELSE 0) + SumAt(bar, d, n - 1)

RECURSIVE Below(_, _)
Below(i, d) ==
    IF i <= 1 THEN 0
    ELSE SumAt(bars[i - 1], d, Len(bars[i - 1].dates)) + Below(i - 1, d)

\* C10: in a call of org_monthlycatsumplot each query is drawn with the
\* buckets and sums monthlycatsumplotdata gives for it, and the bottom of its
\* bar on a bucket is the total the earlier queries of the same call put on
\* that bucket (0 when none did), whatever an earlier call left behind.
C10_BottomIsSumOfEarlierBars ==
    /\ Len(bars) = Len(queries)
    /\ \A i \in 1..Len(bars) :
        /\ LET q == queries[i]
               r == monthlycatsumplotdata(q.labels, q.spender, q.startdate,
                                          q.enddate, q.invert)
           IN r = Value([dates |-> bars[i].dates, sums |-> bars[i].sums])
        /\ Len(bars[i].bottom) = Len(bars[i].dates)
        /\ \A k \in 1..Len(bars[i].dates) :
              bars[i].bottom[k] = Below(i, bars[i].dates[k])

\* A second query drawn on a bucket the first one put a total on, in a call
\* made after an earlier call returned its file name.
C10_Witness ==
    /\ pc = "plot"
    /\ ret = Value(FileName)
    /\ Len(bars) >= 2
    /\ \E k \in 1..Len(bars[2].dates) : bars[2].bottom[k] # 0

====
